---------------------------- MODULE Spec2Model ----------------------------
(***************************************************************************)
(* A model of cellcli's document parser (src/src/cellcli/parser.py):       *)
(* parse_cell_spec and its helpers.  Text is modelled character by         *)
(* character: a string is a sequence of characters, and the parser's       *)
(* strip / startswith / lower / split / int are computed on it.            *)
(***************************************************************************)
EXTENDS Integers, Sequences, FiniteSets, TLC

(***************************************************************************)
(* Python string primitives used by the parser.                            *)
(***************************************************************************)
Min(S) == CHOOSE x \in S : \A y \in S : x <= y
Max(S) == CHOOSE x \in S : \A y \in S : x >= y

Ch(s, k) == SubSeq(s, k, k)

\* str.strip() with no argument strips whitespace.
Whitespace == {" ", "\t", "\r"}

\* Whether some character of s is not in cs, and the first and last such.
HasKept(s, cs) == \E k \in 1..Len(s) : Ch(s, k) \notin cs
FirstKept(s, cs) ==
    CHOOSE k \in 1..Len(s) :
        Ch(s, k) \notin cs /\ \A j \in 1..(k - 1) : Ch(s, j) \in cs
LastKept(s, cs) ==
    Len(s) - (CHOOSE d \in 0..(Len(s) - 1) :
                 /\ Ch(s, Len(s) - d) \notin cs
                 /\ \A e \in 0..(d - 1) : Ch(s, Len(s) - e) \in cs)

\* s.lstrip(cs)
LStripChars(s, cs) ==
    IF HasKept(s, cs) THEN SubSeq(s, FirstKept(s, cs), Len(s)) ELSE ""

\* s.strip(cs)
StripChars(s, cs) ==
    IF HasKept(s, cs) THEN SubSeq(s, FirstKept(s, cs), LastKept(s, cs)) ELSE ""

\* s.strip()
Strip(s) == StripChars(s, Whitespace)

\* s.startswith(p), s.endswith(p)
StartsWith(s, p) == Len(s) >= Len(p) /\ SubSeq(s, 1, Len(p)) = p
EndsWith(s, p) == Len(s) >= Len(p) /\ SubSeq(s, Len(s) - Len(p) + 1, Len(s)) = p

UpperAlpha == "ABCDEFGHIJKLMNOPQRSTUVWXYZ"
LowerAlpha == "abcdefghijklmnopqrstuvwxyz"

\* The lower-case letter of each capital.
LowerOf == [c \in {Ch(UpperAlpha, k) : k \in 1..26} |->
              Ch(LowerAlpha, CHOOSE k \in 1..26 : Ch(UpperAlpha, k) = c)]

LowerChar(c) == IF c \in DOMAIN LowerOf THEN LowerOf[c] ELSE c

RECURSIVE LowerFrom(_, _)
LowerFrom(s, k) ==
    IF k > Len(s) THEN "" ELSE LowerChar(Ch(s, k)) \o LowerFrom(s, k + 1)

\* s.lower()
Lower(s) == LowerFrom(s, 1)

\* Whether sep occurs in s at or after position start, and where first.
OccursFrom(s, sep, start) == \E k \in start..Len(s) : Ch(s, k) = sep
FirstFrom(s, sep, start) ==
    CHOOSE k \in start..Len(s) :
        Ch(s, k) = sep /\ \A j \in start..(k - 1) : Ch(s, j) # sep

\* s.split(sep) for a one-character separator: a sequence of strings.
RECURSIVE SplitFrom(_, _, _)
SplitFrom(s, sep, start) ==
    IF OccursFrom(s, sep, start)
    THEN <<SubSeq(s, start, FirstFrom(s, sep, start) - 1)>>
         \o SplitFrom(s, sep, FirstFrom(s, sep, start) + 1)
    ELSE <<SubSeq(s, start, Len(s))>>

Split(s, sep) == SplitFrom(s, sep, 1)

\* s.split(sep, 1)[1], for s that holds sep: what follows the first sep.
AfterFirst(s, sep) == SubSeq(s, FirstFrom(s, sep, 1) + 1, Len(s))

\* text.splitlines(): no empty last line after a final newline.
SplitLines(t) ==
    LET parts == Split(t, "\n")
    IN  IF parts[Len(parts)] = "" THEN SubSeq(parts, 1, Len(parts) - 1) ELSE parts

\* s.replace(c, "") for a one-character c.
RECURSIVE RemoveFrom(_, _, _)
RemoveFrom(s, c, k) ==
    IF k > Len(s) THEN ""
    ELSE (IF Ch(s, k) = c THEN "" ELSE Ch(s, k)) \o RemoveFrom(s, c, k + 1)

Remove(s, c) == RemoveFrom(s, c, 1)

\* sub in s
Contains(s, sub) ==
    \E k \in 1..(Len(s) - Len(sub) + 1) : SubSeq(s, k, k + Len(sub) - 1) = sub

Digits == "0123456789"
IsDigit(c) == \E k \in 1..Len(Digits) : Ch(Digits, k) = c
DigitVal(c) == (CHOOSE k \in 1..Len(Digits) : Ch(Digits, k) = c) - 1

\* int(s) accepts surrounding whitespace, one sign, and digits that single
\* underscores may group; anything else raises ValueError.
IntBody(s) ==
    LET t == Strip(s)
    IN  IF Len(t) > 0 /\ Ch(t, 1) \in {"+", "-"} THEN SubSeq(t, 2, Len(t)) ELSE t

IsInt(s) ==
    LET b == IntBody(s)
    IN  /\ Len(b) > 0
        /\ IsDigit(Ch(b, 1))
        /\ IsDigit(Ch(b, Len(b)))
        /\ \A k \in 1..Len(b) : IsDigit(Ch(b, k)) \/ Ch(b, k) = "_"
        /\ \A k \in 1..(Len(b) - 1) : ~(Ch(b, k) = "_" /\ Ch(b, k + 1) = "_")

RECURSIVE DigitsValue(_, _)
DigitsValue(b, k) ==
    IF k = 0 THEN 0
    ELSE IF Ch(b, k) = "_" THEN DigitsValue(b, k - 1)
    ELSE DigitsValue(b, k - 1) * 10 + DigitVal(Ch(b, k))

\* int(s), for s with IsInt(s)
ToInt(s) ==
    LET t == Strip(s)
        b == IntBody(s)
        v == DigitsValue(b, Len(b))
    IN  IF Ch(t, 1) = "-" THEN 0 - v ELSE v


\* Printable ASCII in code order (the backquote, which no document here holds,
\* left out): Python compares strings by code point.
Ascii == " !\"#$%&'()*+,-./0123456789:;<=>?@ABCDEFGHIJKLMNOPQRSTUVWXYZ[\\]^_abcdefghijklmnopqrstuvwxyz{|}~"
CharCode(c) == CHOOSE k \in 1..Len(Ascii) : Ch(Ascii, k) = c

\* a < b on strings
StrLess(a, b) ==
    \E k \in 1..(Len(a) + 1) :
        /\ k <= Len(b)
        /\ SubSeq(a, 1, k - 1) = SubSeq(b, 1, k - 1)
        /\ \/ k > Len(a)
           \/ CharCode(Ch(a, k)) < CharCode(Ch(b, k))

\* A variant of Sorted that lists in descending order.
Sorted_Descending(S) ==
    [j \in 1..Cardinality(S) |->
        CHOOSE s \in S : Cardinality({t \in S : StrLess(s, t)}) = j - 1]

\* sorted(S) for a set of strings
Sorted(S) ==
    [j \in 1..Cardinality(S) |->
        CHOOSE s \in S : Cardinality({t \in S : StrLess(t, s)}) = j - 1]

\* sep.join(seq)
RECURSIVE Join(_, _)
Join(seq, sep) ==
    IF Len(seq) = 0 THEN ""
    ELSE IF Len(seq) = 1 THEN seq[1]
    ELSE seq[1] \o sep \o Join(Tail(seq), sep)

(***************************************************************************)
(* The entity model (models.py) and the error kind (errors.py).            *)
(***************************************************************************)
LayerSpec(name, vcpu, memory_mb, tasks) ==
    [name |-> name, vcpu |-> vcpu, memory_mb |-> memory_mb, tasks |-> tasks]

DatabaseSpec(instance_class, storage_gb) ==
    [instance_class |-> instance_class, storage_gb |-> storage_gb]

CacheSpec(node_type, nodes) == [node_type |-> node_type, nodes |-> nodes]

CellSpec(cell_name, realm_name, region, layers, database, cache) ==
    [cell_name |-> cell_name, realm_name |-> realm_name, region |-> region,
     layers |-> layers, database |-> database, cache |-> cache]

\* The one error kind the parser raises.
CellSpecError == "CellSpecError"

\* Optional values: None, or one value.
None == <<>>
Some(v) == <<v>>

\* Python truthiness of an Optional[str]: None and "" are falsy.
Falsy(o) == o = None \/ o[1] = ""

\* Dictionaries are functions from their keys.
EmptyDict == [k \in {} |-> ""]
DictSet(d, key, value) ==
    [k \in (DOMAIN d) \cup {key} |-> IF k = key THEN value ELSE d[k]]

\* What a helper hands back: a value and a cursor, or a raised spec error.
Returned(value, i) == [raised |-> FALSE, msg |-> "", value |-> value, i |-> i]
Raised(msg) == [raised |-> TRUE, msg |-> msg, value |-> <<>>, i |-> 0]

(***************************************************************************)
(* Helpers of the scanner.  Cursors are zero-based, as in the code.        *)
(***************************************************************************)
Line(ls, k) == ls[k + 1]

\* A variant of parse_cell_name_from_title that keeps the " Cell" suffix.
parse_cell_name_keeps_suffix(line) == Strip(LStripChars(line, {"#"}))

\* _parse_cell_name_from_title
parse_cell_name_from_title(line) ==
    LET title == Strip(LStripChars(line, {"#"}))
    IN  IF EndsWith(Lower(title), " cell")
        THEN Strip(SubSeq(title, 1, Len(title) - 4))
        ELSE title

\* while i < n and not lines[i].strip(): i += 1
SkipBlank(ls, start) ==
    LET K == {k \in start..(Len(ls) - 1) : Strip(Line(ls, k)) # ""}
    IN  IF K = {} THEN (IF start > Len(ls) THEN start ELSE Len(ls)) ELSE Min(K)

\* i < n and lines[i].strip().startswith("|")
RowAt(ls, k) == k < Len(ls) /\ StartsWith(Strip(Line(ls, k)), "|")

\* set(line.replace("|", "").strip()) <= {"-", ":"}
IsSeparatorRow(line) ==
    LET t == Strip(Remove(line, "|"))
    IN  \A k \in 1..Len(t) : Ch(t, k) \in {"-", ":"}

\* [c.strip() for c in line.strip("|").split("|")]
Cells(line) ==
    LET parts == Split(StripChars(line, {"|"}), "|")
    IN  [j \in 1..Len(parts) |-> Strip(parts[j])]

\* A variant of StopCursor that consumes the stopping line.
StopCursor_Consumes(i) == i + 1

\* The cursor a table scanner returns when its row loop stops at line i.
StopCursor(i) == i

\* The message of a layer row with too few cells.
ShortRowMessage(line) == "Compute Layers row must have at least 4 columns."

\* The data-row loop of _parse_layers_table.
RECURSIVE LayerRows(_, _, _)
LayerRows(ls, i, acc) ==
    IF i >= Len(ls) THEN Returned(acc, StopCursor(i))
    ELSE
      LET line == Strip(Line(ls, i)) IN
      IF line = "" \/ ~StartsWith(line, "|") THEN Returned(acc, StopCursor(i))
      ELSE IF IsSeparatorRow(line) THEN LayerRows(ls, i + 1, acc)
      ELSE
        LET cells == Cells(line) IN
        IF Len(cells) < 4 THEN Raised(ShortRowMessage(line))
        ELSE IF ~(IsInt(cells[2]) /\ IsInt(cells[3]) /\ IsInt(cells[4]))
        THEN Raised("Invalid numeric values in compute layer row: " \o line)
        ELSE LayerRows(ls, i + 1,
                 Append(acc, LayerSpec(Lower(cells[1]), ToInt(cells[2]),
                                       ToInt(cells[3]), ToInt(cells[4]))))

\* _parse_layers_table
parse_layers_table(ls, start) ==
    LET h == SkipBlank(ls, start) IN
    IF ~RowAt(ls, h)
    THEN Raised("Compute Layers table header row is missing or malformed.")
    ELSE IF ~RowAt(ls, h + 1)
    THEN Raised("Compute Layers table separator row is missing.")
    ELSE LayerRows(ls, h + 2, <<>>)

\* The data-row loop of _parse_kv_table.
RECURSIVE KvRows(_, _, _)
KvRows(ls, i, acc) ==
    IF i >= Len(ls) THEN Returned(acc, StopCursor(i))
    ELSE
      LET line == Strip(Line(ls, i)) IN
      IF line = "" \/ ~StartsWith(line, "|") THEN Returned(acc, StopCursor(i))
      ELSE IF IsSeparatorRow(line) THEN KvRows(ls, i + 1, acc)
      ELSE
        LET cells == Cells(line) IN
        IF Len(cells) < 2
        THEN Raised("Key value row must have at least 2 columns: " \o line)
        ELSE
          LET key == Lower(Strip(cells[1])) IN
          KvRows(ls, i + 1,
                 IF key # "" THEN DictSet(acc, key, Strip(cells[2])) ELSE acc)

\* _parse_kv_table
parse_kv_table(ls, start) ==
    LET h == SkipBlank(ls, start) IN
    IF ~RowAt(ls, h)
    THEN Raised("Key value table header row is missing or malformed.")
    ELSE IF ~RowAt(ls, h + 1)
    THEN Raised("Key value table separator row is missing.")
    ELSE KvRows(ls, h + 2, EmptyDict)

(***************************************************************************)
(* The two validation passes.                                              *)
(***************************************************************************)
required_layers == {"kernel", "platform", "gateway", "apps"}

\* found_layers, line 97
found_layers(layers) == {Lower(layers[k].name) : k \in 1..Len(layers)}

\* required_layers - found_layers, line 98
missing_layers(layers) == required_layers \ found_layers(layers)

\* The database checks of pass 1, lines 102-116: the DatabaseSpec or an error.
database_of(db_settings) ==
    IF DOMAIN db_settings = {}
    THEN Raised("No database settings found under '## Database'.")
    ELSE IF "instance_class" \notin DOMAIN db_settings
            \/ "storage_gb" \notin DOMAIN db_settings
    THEN Raised("Database table must define 'instance_class' and 'storage_gb'.")
    ELSE IF ~IsInt(db_settings["storage_gb"])
    THEN Raised("Database 'storage_gb' must be an integer.")
    ELSE Returned(DatabaseSpec(db_settings["instance_class"],
                               ToInt(db_settings["storage_gb"])), 0)

\* The cache checks of pass 1, lines 118-137: the CacheSpec or an error.
cache_of(cache_settings) ==
    IF DOMAIN cache_settings = {}
    THEN Raised("No cache settings found under '## Cache'.")
    ELSE IF "node_type" \notin DOMAIN cache_settings
            \/ "nodes" \notin DOMAIN cache_settings
    THEN Raised("Cache table must define 'node_type' and 'nodes'.")
    ELSE IF ~IsInt(cache_settings["nodes"])
    THEN Raised("Cache 'nodes' must be an integer.")
    ELSE Returned(CacheSpec(cache_settings["node_type"],
                            ToInt(cache_settings["nodes"])), 0)

\* Validation pass 1 and the assembly of the CellSpec, lines 79-147.
validate_structure(cell_name, realm_name, region, layers, db_settings, cache_settings) ==
    IF Falsy(cell_name)
    THEN Raised("Missing Cell title line (expected '# <name> Cell').")
    ELSE IF Falsy(realm_name) THEN Raised("Missing 'Realm:' line.")
    ELSE IF Falsy(region) THEN Raised("Missing 'Region:' line.")
    ELSE IF Len(layers) = 0
    THEN Raised("No compute layers found under '## Compute Layers'.")
    ELSE
      LET missing == missing_layers(layers)
          db == database_of(db_settings)
          cache == cache_of(cache_settings)
      IN  IF missing # {}
          THEN Raised("Missing required compute layers: "
                      \o Join(Sorted(missing), ", ") \o ".")
          ELSE IF db.raised THEN db
          ELSE IF cache.raised THEN cache
          ELSE Returned(CellSpec(cell_name[1], realm_name[1], region[1], layers,
                                 db.value, cache.value), 0)

\* A variant of NotPositive that lets zero through.
NotPositive_Negative(v) == v < 0

\* The test that rejects a quantity, lines 330-346: value <= 0.
NotPositive(v) == v <= 0

\* The per-layer loop of _validate_cell_spec_numbers, lines 328-339.
RECURSIVE validate_layers(_, _)
validate_layers(layers, k) ==
    IF k > Len(layers) THEN Returned(<<>>, 0)
    ELSE IF NotPositive(layers[k].vcpu)
    THEN Raised("Layer '" \o layers[k].name \o "' vCPU must be positive.")
    ELSE IF NotPositive(layers[k].memory_mb)
    THEN Raised("Layer '" \o layers[k].name \o "' memory_mb must be positive.")
    ELSE IF NotPositive(layers[k].tasks)
    THEN Raised("Layer '" \o layers[k].name \o "' tasks must be positive.")
    ELSE validate_layers(layers, k + 1)

\* A variant of validate_cell_spec_numbers that looks at the database and the
\* cache before the layers.
validate_numbers_layers_last(c) ==
    LET per_layer == validate_layers(c.layers, 1) IN
    IF NotPositive(c.database.storage_gb)
    THEN Raised("Database 'storage_gb' must be positive.")
    ELSE IF NotPositive(c.cache.nodes)
    THEN Raised("Cache 'nodes' must be positive.")
    ELSE IF per_layer.raised THEN per_layer
    ELSE Returned(<<>>, 0)

\* _validate_cell_spec_numbers
validate_cell_spec_numbers(c) ==
    LET per_layer == validate_layers(c.layers, 1) IN
    IF per_layer.raised THEN per_layer
    ELSE IF NotPositive(c.database.storage_gb)
    THEN Raised("Database 'storage_gb' must be positive.")
    ELSE IF NotPositive(c.cache.nodes)
    THEN Raised("Cache 'nodes' must be positive.")
    ELSE Returned(<<>>, 0)

(***************************************************************************)
(* The classification of one line by the document scanner, lines 42-77.    *)
(***************************************************************************)
\* line.lower().startswith(p), for a non-empty p: lower() maps character by
\* character, so only the first len(p) characters of the line decide (the
\* first of them is looked at first).
LowerStartsWith(line, p) ==
    /\ Len(line) >= Len(p)
    /\ LowerChar(Ch(line, 1)) = Ch(p, 1)
    /\ Lower(SubSeq(line, 1, Len(p))) = p

\* The if-chain of lines 45-77: the first test that holds decides.
Kind(line) ==
    IF StartsWith(line, "# ") THEN "title"
    ELSE IF LowerStartsWith(line, "realm:") THEN "realm"
    ELSE IF LowerStartsWith(line, "region:") THEN "region"
    ELSE IF LowerStartsWith(line, "## compute layers") THEN "compute layers"
    ELSE IF LowerStartsWith(line, "## database") THEN "database"
    ELSE IF LowerStartsWith(line, "## cache") THEN "cache"
    ELSE "unrecognized"

IsTitle(line) == Kind(line) = "title"
IsRealm(line) == Kind(line) = "realm"
IsRegion(line) == Kind(line) = "region"
IsComputeLayers(line) == Kind(line) = "compute layers"
IsDatabase(line) == Kind(line) = "database"
IsCache(line) == Kind(line) = "cache"
IsUnrecognized(line) == Kind(line) = "unrecognized"

(***************************************************************************)
(* parse_cell_spec as a function of the text: the scan loop and the two    *)
(* passes run to their end.                                                *)
(***************************************************************************)
NoResult == [kind |-> "none", exc |-> "", msg |-> "", cell |-> None]
RaisedResult(exc, msg) == [kind |-> "raised", exc |-> exc, msg |-> msg, cell |-> None]
ReturnedResult(c) == [kind |-> "returned", exc |-> "", msg |-> "", cell |-> Some(c)]

ScanStart ==
    [i |-> 0, cell_name |-> None, realm_name |-> None, region |-> None,
     layers |-> <<>>, db_settings |-> EmptyDict, cache_settings |-> EmptyDict,
     raised |-> FALSE, msg |-> ""]

\* The while loop of lines 41-77.
RECURSIVE scan_loop(_, _)
scan_loop(ls, st) ==
    IF st.raised \/ st.i >= Len(ls) THEN st
    ELSE
      LET line == Strip(Line(ls, st.i))
          kind == Kind(line)
          lt == parse_layers_table(ls, st.i + 1)
          kv == parse_kv_table(ls, st.i + 1)
          fail(r) == [st EXCEPT !.raised = TRUE, !.msg = r.msg]
      IN
      scan_loop(ls,
        IF kind = "title"
        THEN [st EXCEPT !.cell_name = Some(parse_cell_name_from_title(line)), !.i = @ + 1]
        ELSE IF kind = "realm"
        THEN [st EXCEPT !.realm_name = Some(Strip(AfterFirst(line, ":"))), !.i = @ + 1]
        ELSE IF kind = "region"
        THEN [st EXCEPT !.region = Some(Strip(AfterFirst(line, ":"))), !.i = @ + 1]
        ELSE IF kind = "compute layers"
        THEN (IF lt.raised THEN fail(lt) ELSE [st EXCEPT !.layers = lt.value, !.i = lt.i])
        ELSE IF kind = "database"
        THEN (IF kv.raised THEN fail(kv) ELSE [st EXCEPT !.db_settings = kv.value, !.i = kv.i])
        ELSE IF kind = "cache"
        THEN (IF kv.raised THEN fail(kv) ELSE [st EXCEPT !.cache_settings = kv.value, !.i = kv.i])
        ELSE [st EXCEPT !.i = @ + 1])

\* parse_cell_spec on a readable file holding text t, lines 26-153.
parse_text(t) ==
    LET st == scan_loop(SplitLines(t), ScanStart)
        v == validate_structure(st.cell_name, st.realm_name, st.region,
                                st.layers, st.db_settings, st.cache_settings)
        w == validate_cell_spec_numbers(v.value)
    IN  IF st.raised THEN RaisedResult(CellSpecError, st.msg)
        ELSE IF v.raised THEN RaisedResult(CellSpecError, v.msg)
        ELSE IF w.raised THEN RaisedResult(CellSpecError, w.msg)
        ELSE ReturnedResult(v.value)

(***************************************************************************)
(* Input documents.  A document is written block by block: the title       *)
(* line, the Realm line, the Region line and the three sections, each a    *)
(* sequence of lines.                                                      *)
(***************************************************************************)
\* The largest number of defective blocks in one document.
MaxDefects == 2
\* The largest number of rows edited into one Compute Layers table.
MaxRowEdits == 1
\* The largest number of blocks added to a complete document.
MaxExtra == 1
\* The largest number of blank lines between two blocks of a permuted document.
MaxBlank == 1

\* "\n".join(ls) with a final newline
Text(ls) == Join(ls, "\n") \o "\n"

RECURSIVE Flatten(_)
Flatten(blocks) ==
    IF Len(blocks) = 0 THEN <<>> ELSE Head(blocks) \o Flatten(Tail(blocks))

Blanks(b) == [k \in 1..b |-> ""]

\* The blocks with b blank lines after each but the last.
RECURSIVE Spaced(_, _)
Spaced(blocks, b) ==
    IF Len(blocks) = 0 THEN <<>>
    ELSE IF Len(blocks) = 1 THEN blocks[1]
    ELSE blocks[1] \o Blanks(b) \o Spaced(Tail(blocks), b)

RECURSIVE NatToStr(_)
NatToStr(n) ==
    IF n < 10 THEN Ch(Digits, n + 1)
    ELSE NatToStr(n \div 10) \o Ch(Digits, (n % 10) + 1)

UpperChar(c) ==
    IF \E k \in 1..Len(LowerAlpha) : Ch(LowerAlpha, k) = c
    THEN Ch(UpperAlpha, CHOOSE k \in 1..Len(LowerAlpha) : Ch(LowerAlpha, k) = c)
    ELSE c

RECURSIVE UpperFrom(_, _)
UpperFrom(s, k) ==
    IF k > Len(s) THEN "" ELSE UpperChar(Ch(s, k)) \o UpperFrom(s, k + 1)

\* A name as written: 1 as it is, 2 capitalised, 3 in capitals.
Cased(name, c) ==
    IF c = 1 THEN name
    ELSE IF c = 2 THEN UpperChar(Ch(name, 1)) \o SubSeq(name, 2, Len(name))
    ELSE UpperFrom(name, 1)

Perms(n) == {p \in [1..n -> 1..n] : \A a, b \in 1..n : a # b => p[a] # p[b]}

LayerRow(name, vcpu, memory_mb, tasks) ==
    "| " \o name \o " | " \o vcpu \o " | " \o memory_mb \o " | " \o tasks \o " |"

KvRow(key, value) == "| " \o key \o " | " \o value \o " |"

LayersSection(rows) ==
    <<"## Compute Layers", "| Layer | vCPU | Memory MB | Tasks |", "|---|---|---|---|">>
    \o rows

DatabaseSection(rows) == <<"## Database", "| Setting | Value |", "|---|---|">> \o rows
CacheSection(rows) == <<"## Cache", "| Setting | Value |", "|---|---|">> \o rows

LayerNames == <<"kernel", "platform", "gateway", "apps">>

\* The values a well-formed document is written from: 1 the repository's
\* example, 2 the smallest quantities.
Written(scheme) ==
    IF scheme = 1
    THEN [layers |-> <<LayerSpec("kernel", 256, 512, 2), LayerSpec("platform", 512, 1024, 2),
                       LayerSpec("gateway", 256, 512, 2), LayerSpec("apps", 512, 1024, 2)>>,
          database |-> DatabaseSpec("db.t3.small", 20),
          cache |-> CacheSpec("cache.t3.micro", 1)]
    ELSE [layers |-> [k \in 1..4 |-> LayerSpec(LayerNames[k], 1, 1, 1)],
          database |-> DatabaseSpec("db.m5.large", 1),
          cache |-> CacheSpec("cache.r6g.large", 3)]

RowOf(l, c) ==
    LayerRow(Cased(l.name, c), NatToStr(l.vcpu), NatToStr(l.memory_mb), NatToStr(l.tasks))

DatabaseRows(d) ==
    <<KvRow("instance_class", d.instance_class), KvRow("storage_gb", NatToStr(d.storage_gb))>>

CacheRows(c) == <<KvRow("node_type", c.node_type), KvRow("nodes", NatToStr(c.nodes))>>

GoodRows == [k \in 1..4 |-> RowOf(Written(1).layers[k], 1)]

\* The six blocks of the repository's example document.
GoodBlocks ==
    << <<"# icc-01 Cell">>, <<"Realm: dev-east">>, <<"Region: us-east-2">>,
       LayersSection(GoodRows),
       DatabaseSection(DatabaseRows(Written(1).database)),
       CacheSection(CacheRows(Written(1).cache)) >>

\* What is known of a document from the way it was written: its family, the
\* CellSpec it was written from (well-formed documents), and the same
\* blocks in the example's order with nothing between them (permuted ones).
Given(family, text, cell, canon) ==
    [fs |-> "file", text |-> text, family |-> family, cell |-> cell, canon |-> canon]

\* Well-formed documents: the four layer rows in any order and casing.
WellFormedInputs ==
    { LET w == Written(scheme)
          order == [k \in 1..4 |-> w.layers[p[k]]]
      IN  Given("wellformed",
                Text(Spaced(<< <<"# icc-01" \o suffix>>, <<"Realm: " \o realm>>,
                               <<"Region: us-east-2">>,
                               LayersSection([k \in 1..4 |-> RowOf(order[k], c)]),
                               DatabaseSection(DatabaseRows(w.database)),
                               CacheSection(CacheRows(w.cache)) >>, 1)),
                Some(CellSpec("icc-01", realm, "us-east-2", order, w.database, w.cache)),
                "")
      : suffix \in {" Cell", ""}, realm \in {"dev-east", "a:b"},
        p \in Perms(4), c \in 1..3, scheme \in 1..2 }

\* The variants of each block: the first is the example's, the others are
\* absent (no line) or defective.
BlockVariants ==
    << << GoodBlocks[1], <<>> >>,
       << GoodBlocks[2], <<>>, <<"Realm:">>, <<"REALM:   ">> >>,
       << GoodBlocks[3], <<>>, <<"region:">> >>,
       << GoodBlocks[4],
          <<>>,
          LayersSection(<<>>),
          <<"## Compute Layers", "| Layer | vCPU | Memory MB | Tasks |">>,
          LayersSection(SubSeq(GoodRows, 2, 4)),
          LayersSection(<<GoodRows[1], GoodRows[3]>>),
          LayersSection(<<LayerRow("kernel", "0", "512", "2")>> \o SubSeq(GoodRows, 2, 4)),
          LayersSection(<<LayerRow("kernel", "256", "0", "2"),
                          LayerRow("platform", "0", "1024", "2")>> \o SubSeq(GoodRows, 3, 4)),
          LayersSection(SubSeq(GoodRows, 1, 3) \o <<LayerRow("apps", "512", "1024", "-1")>>),
          LayersSection(<<GoodRows[1], LayerRow("platform", "0", "1024", "0")>>
                        \o SubSeq(GoodRows, 3, 4)),
          LayersSection(GoodRows \o <<LayerRow("edge", "1", "1", "1")>>),
          LayersSection(<<LayerRow("edge", "0", "1", "1")>> \o GoodRows),
          LayersSection(<<LayerRow("kernel", "0", "512", "2")>> \o SubSeq(GoodRows, 2, 3)) >>,
       << GoodBlocks[5],
          <<>>,
          DatabaseSection(<<>>),
          DatabaseSection(<<KvRow("instance_class", "db.t3.small")>>),
          DatabaseSection(<<KvRow("instance_class", "db.t3.small"), KvRow("storage_gb", "twenty")>>),
          DatabaseSection(<<KvRow("instance_class", "db.t3.small"), KvRow("storage_gb", "0")>>),
          DatabaseSection(<<KvRow("instance_class", "db.t3.small"), KvRow("storage_gb", "-5")>>),
          DatabaseSection(<<"| instance_class | |", KvRow("storage_gb", "20")>>) >>,
       << GoodBlocks[6],
          <<>>,
          CacheSection(<<KvRow("node_type", "cache.t3.micro")>>),
          CacheSection(<<KvRow("node_type", "cache.t3.micro"), KvRow("nodes", "x")>>),
          CacheSection(<<KvRow("node_type", "cache.t3.micro"), KvRow("nodes", "0")>>),
          CacheSection(<<"| node_type | |", KvRow("nodes", "1")>>) >> >>

\* Documents with at most MaxDefects blocks that are not the example's.
DefectInputs ==
    { Given("defect", Text(Spaced([s \in 1..6 |-> BlockVariants[s][c[s]]], 1)), None, "")
      : c \in { d \in (1..Len(BlockVariants[1])) \X (1..Len(BlockVariants[2]))
                     \X (1..Len(BlockVariants[3])) \X (1..Len(BlockVariants[4]))
                     \X (1..Len(BlockVariants[5])) \X (1..Len(BlockVariants[6])) :
                  Cardinality({s \in 1..6 : d[s] # 1}) <= MaxDefects } }

\* Rows edited into a Compute Layers table.
RowPool ==
    { "| kernel | 1 | 1 |",
      "| apps |",
      "| kernel | x | 1 | 1 |",
      "| kernel | 1 | 1.5 | 1 |",
      "| kernel | 1 | 1 | |",
      "|---|---|",
      "|:--|--:|:-:|---|",
      "| | |",
      "| | | | |",
      "| edge | 1 | 1 | 1 |",
      "| Kernel | 2 | 2 | 2 | note |",
      "kernel | 1 | 1 | 1 |" }

InsertAt(seq, p, e) == SubSeq(seq, 1, p) \o <<e>> \o SubSeq(seq, p + 1, Len(seq))
RemoveAt(seq, p) == SubSeq(seq, 1, p - 1) \o SubSeq(seq, p + 1, Len(seq))

RECURSIVE EditedTables(_)
EditedTables(k) ==
    IF k = 0 THEN {GoodRows}
    ELSE LET prev == EditedTables(k - 1) IN
         prev \cup UNION {{InsertAt(t, p, r) : p \in 0..Len(t), r \in RowPool} : t \in prev}

\* The example document with at most MaxRowEdits rows of RowPool put into its
\* Compute Layers table, or with one of the four rows taken out of it.
RowInputs ==
    { Given("rows", Text(Spaced([GoodBlocks EXCEPT ![4] = LayersSection(t)], 1)), None, "")
      : t \in EditedTables(MaxRowEdits) \cup {RemoveAt(GoodRows, p) : p \in 1..4} }

\* Blocks added to a complete document: repeated metadata lines and sections.
ExtraPool ==
    { <<"# other Cell">>,
      <<"Realm: prod-west">>,
      <<"Realm:">>,
      <<"REGION: eu-1">>,
      LayersSection([k \in 1..4 |-> RowOf(Written(2).layers[k], 3)]),
      LayersSection(SubSeq(GoodRows, 2, 4)),
      LayersSection(<<>>),
      DatabaseSection(DatabaseRows(Written(2).database)),
      DatabaseSection(<<KvRow("instance_class", "db.m5.large")>>),
      DatabaseSection(<<KvRow("storage_gb", "7")>>),
      CacheSection(CacheRows(Written(2).cache)),
      CacheSection(<<KvRow("node_type", "cache.r6g.large")>>) }

RECURSIVE ExtendedDocs(_)
ExtendedDocs(k) ==
    IF k = 0 THEN {GoodBlocks}
    ELSE LET prev == ExtendedDocs(k - 1) IN
         prev \cup UNION {{InsertAt(d, p, e) : p \in {0, 3, Len(d)}, e \in ExtraPool}
                           : d \in prev}

\* The example document with at most MaxExtra more blocks, each put before
\* all it holds, after its Region line, or after all it holds.
ExtraInputs ==
    { Given("extra", Text(Spaced(d, 1)), None, "") : d \in ExtendedDocs(MaxExtra) }

\* A second set of blocks, written differently.
OtherBlocks ==
    << <<"# icc-02">>, <<"REALM:prod-west">>, <<"region:  eu-west-1  ">>,
       LayersSection([k \in 1..4 |-> RowOf(Written(2).layers[5 - k], 2)] \o <<"|---|---|---|---|">>),
       <<"## database settings", "", "| Setting | Value |", "|---|---|">>
           \o DatabaseRows(Written(2).database),
       CacheSection(CacheRows(Written(2).cache)) >>

\* The six blocks in every order: the example's with the same number of blank
\* lines, at most MaxBlank, between any two, the others with none.
PermutedInputs ==
    { Given("permuted", Text(Spaced([k \in 1..6 |-> blocks[p[k]]], b)), None,
            Text(Flatten(blocks)))
      : blocks \in {GoodBlocks}, p \in Perms(6), b \in 0..MaxBlank }
    \cup
    { Given("permuted", Text(Flatten([k \in 1..6 |-> OtherBlocks[p[k]]])), None,
            Text(Flatten(OtherBlocks)))
      : p \in Perms(6) }

\* A path that holds no readable text.
NoFileInputs ==
    { [fs |-> f, text |-> "", family |-> "nofile", cell |-> None, canon |-> ""]
      : f \in {"missing", "unreadable", "undecodable"} }

Inputs ==
    WellFormedInputs \cup DefectInputs \cup RowInputs \cup ExtraInputs
    \cup PermutedInputs \cup NoFileInputs

(***************************************************************************)
(* The state of one call of parse_cell_spec.                               *)
(***************************************************************************)
VARIABLES
    given,           \* how the input was written (never read by the parser)
    path,            \* the argument
    fs,              \* what the file system holds at path
    text,            \* the file's content, when it is a readable text file
    pc,              \* where the call stands
    lines, i,        \* the scanner's line list and cursor
    cell_name, realm_name, region,          \* the accumulators
    layers, db_settings, cache_settings,
    cell,            \* the assembled CellSpec, once pass 1 is through
    result           \* how the call ended

vars == <<given, path, fs, text, pc, lines, i, cell_name, realm_name, region,
          layers, db_settings, cache_settings, cell, result>>

accumulators == <<cell_name, realm_name, region, layers, db_settings, cache_settings>>

Init ==
    /\ \E inp \in Inputs :
          /\ fs = inp.fs
          /\ text = inp.text
          /\ given = [family |-> inp.family, cell |-> inp.cell, canon |-> inp.canon]
    /\ path = "examples/cell-spec.md"
    /\ pc = "start"
    /\ lines = <<>>
    /\ i = 0
    /\ cell_name = None /\ realm_name = None /\ region = None
    /\ layers = <<>>
    /\ db_settings = EmptyDict
    /\ cache_settings = EmptyDict
    /\ cell = None
    /\ result = NoResult

\* What path.read_text(encoding="utf8") does, line 25: the text, or the
\* exception of the failed read.
read_text ==
    IF fs = "unreadable" THEN RaisedResult("OSError", "cannot read " \o path)
    ELSE IF fs = "undecodable"
    THEN RaisedResult("UnicodeDecodeError", "'utf-8' codec can't decode " \o path)
    ELSE NoResult

\* Lines 20-39: the existence test, the read, the split into lines.
Open ==
    /\ pc = "start"
    /\ IF fs = "missing"
       THEN /\ result' = RaisedResult(CellSpecError, "Spec file not found: " \o path)
            /\ pc' = "done"
            /\ UNCHANGED lines
       ELSE IF read_text.kind = "raised"
       THEN /\ result' = read_text
            /\ pc' = "done"
            /\ UNCHANGED lines
       ELSE /\ lines' = SplitLines(text)
            /\ pc' = "scan"
            /\ UNCHANGED result
    /\ UNCHANGED <<given, path, fs, text, i, accumulators, cell>>

Scanning == pc = "scan" /\ i < Len(lines)
Current == Strip(Line(lines, i))

\* Lines 45-48
ScanTitle ==
    /\ Scanning
    /\ IsTitle(Current)
    /\ cell_name' = Some(parse_cell_name_from_title(Current))
    /\ i' = i + 1
    /\ UNCHANGED <<given, path, fs, text, pc, lines, realm_name, region, layers,
                   db_settings, cache_settings, cell, result>>

\* Lines 52-55
ScanRealm ==
    /\ Scanning
    /\ IsRealm(Current)
    /\ realm_name' = Some(Strip(AfterFirst(Current, ":")))
    /\ i' = i + 1
    /\ UNCHANGED <<given, path, fs, text, pc, lines, cell_name, region, layers,
                   db_settings, cache_settings, cell, result>>

\* Lines 57-60
ScanRegion ==
    /\ Scanning
    /\ IsRegion(Current)
    /\ region' = Some(Strip(AfterFirst(Current, ":")))
    /\ i' = i + 1
    /\ UNCHANGED <<given, path, fs, text, pc, lines, cell_name, realm_name, layers,
                   db_settings, cache_settings, cell, result>>

\* layers, i = r, or the error r propagates out of the call.
TakeLayers(r) ==
    IF r.raised
    THEN /\ result' = RaisedResult(CellSpecError, r.msg)
         /\ pc' = "done"
         /\ UNCHANGED <<layers, i>>
    ELSE /\ layers' = r.value
         /\ i' = r.i
         /\ UNCHANGED <<pc, result>>

\* Lines 64-66
ScanComputeLayers ==
    /\ Scanning
    /\ IsComputeLayers(Current)
    /\ TakeLayers(parse_layers_table(lines, i + 1))
    /\ UNCHANGED <<given, path, fs, text, lines, cell_name, realm_name, region,
                   db_settings, cache_settings, cell>>

\* A variant of TakeDatabase that merges r into the settings held so far.
TakeDatabase_Merges(r) ==
    IF r.raised
    THEN /\ result' = RaisedResult(CellSpecError, r.msg)
         /\ pc' = "done"
         /\ UNCHANGED <<db_settings, i>>
    ELSE /\ db_settings' = [k \in (DOMAIN db_settings) \cup (DOMAIN r.value) |->
                               IF k \in DOMAIN r.value THEN r.value[k] ELSE db_settings[k]]
         /\ i' = r.i
         /\ UNCHANGED <<pc, result>>

\* db_settings, i = r, or the error r propagates out of the call.
TakeDatabase(r) ==
    IF r.raised
    THEN /\ result' = RaisedResult(CellSpecError, r.msg)
         /\ pc' = "done"
         /\ UNCHANGED <<db_settings, i>>
    ELSE /\ db_settings' = r.value
         /\ i' = r.i
         /\ UNCHANGED <<pc, result>>

\* Lines 68-70
ScanDatabase ==
    /\ Scanning
    /\ IsDatabase(Current)
    /\ TakeDatabase(parse_kv_table(lines, i + 1))
    /\ UNCHANGED <<given, path, fs, text, lines, cell_name, realm_name, region,
                   layers, cache_settings, cell>>

\* cache_settings, i = r, or the error r propagates out of the call.
TakeCache(r) ==
    IF r.raised
    THEN /\ result' = RaisedResult(CellSpecError, r.msg)
         /\ pc' = "done"
         /\ UNCHANGED <<cache_settings, i>>
    ELSE /\ cache_settings' = r.value
         /\ i' = r.i
         /\ UNCHANGED <<pc, result>>

\* Lines 72-74
ScanCache ==
    /\ Scanning
    /\ IsCache(Current)
    /\ TakeCache(parse_kv_table(lines, i + 1))
    /\ UNCHANGED <<given, path, fs, text, lines, cell_name, realm_name, region,
                   layers, db_settings, cell>>

\* Lines 76-77
ScanSkip ==
    /\ Scanning
    /\ IsUnrecognized(Current)
    /\ i' = i + 1
    /\ UNCHANGED <<given, path, fs, text, pc, lines, accumulators, cell, result>>

\* cell = v, or the error v propagates out of the call.
TakeCell(v) ==
    IF v.raised
    THEN /\ result' = RaisedResult(CellSpecError, v.msg)
         /\ pc' = "done"
         /\ UNCHANGED cell
    ELSE /\ cell' = Some(v.value)
         /\ pc' = "numbers"
         /\ UNCHANGED result

\* Lines 79-147: the loop is over; pass 1, then the CellSpec is assembled.
ValidateStructure ==
    /\ pc = "scan"
    /\ i >= Len(lines)
    /\ TakeCell(validate_structure(cell_name, realm_name, region, layers,
                                   db_settings, cache_settings))
    /\ UNCHANGED <<given, path, fs, text, lines, i, accumulators>>

\* return cell, or the error v propagates out of the call.
Outcome(v) ==
    IF v.raised THEN RaisedResult(CellSpecError, v.msg) ELSE ReturnedResult(cell[1])

\* Lines 149-153: pass 2, then the CellSpec is returned.
ValidateNumbers ==
    /\ pc = "numbers"
    /\ result' = Outcome(validate_cell_spec_numbers(cell[1]))
    /\ pc' = "done"
    /\ UNCHANGED <<given, path, fs, text, lines, i, accumulators, cell>>

Next ==
    \/ Open
    \/ ScanTitle
    \/ ScanRealm
    \/ ScanRegion
    \/ ScanComputeLayers
    \/ ScanDatabase
    \/ ScanCache
    \/ ScanSkip
    \/ ValidateStructure
    \/ ValidateNumbers

Spec == Init /\ [][Next]_vars

(***************************************************************************)
(* The claims.                                                             *)
(***************************************************************************)
Done == pc = "done"
ReturnedCell == result.kind = "returned"
SpecErrorRaised ==
    result.kind = "raised" /\ result.exc = CellSpecError /\ result.cell = None

\* The scan loop ran through the whole document: no table scanner raised.
ScanCompleted ==
    fs = "file" /\ pc \in {"scan", "numbers", "done"} /\ i >= Len(lines)

NamesOf(ls) == {ls[k].name : k \in 1..Len(ls)}

FullyValid(c) ==
    /\ c.cell_name # "" /\ c.realm_name # "" /\ c.region # ""
    /\ required_layers \subseteq NamesOf(c.layers)
    /\ \A k \in 1..Len(c.layers) :
          c.layers[k].vcpu > 0 /\ c.layers[k].memory_mb > 0 /\ c.layers[k].tasks > 0
    /\ c.database.storage_gb > 0
    /\ c.cache.nodes > 0

\* A quantity of the scanned document that is zero or negative.
SomeQuantityNotPositive ==
    \/ \E k \in 1..Len(layers) :
          layers[k].vcpu <= 0 \/ layers[k].memory_mb <= 0 \/ layers[k].tasks <= 0
    \/ /\ "storage_gb" \in DOMAIN db_settings
       /\ IsInt(db_settings["storage_gb"])
       /\ ToInt(db_settings["storage_gb"]) <= 0
    \/ /\ "nodes" \in DOMAIN cache_settings
       /\ IsInt(cache_settings["nodes"])
       /\ ToInt(cache_settings["nodes"]) <= 0

\* C1: for every input text, a returned Cell is fully valid (names non-empty,
\* the four required layers present, every layer's vcpu, memory_mb and tasks
\* positive, storage_gb and nodes positive); every other call ends in a spec
\* error with no Cell; a quantity that is zero or negative makes the parse
\* fail.  No Cell is returned before the call is over.
C1_ReturnedCellIsFullyValid ==
    /\ ReturnedCell => Done /\ FullyValid(result.cell[1])
    /\ Done /\ fs = "file" /\ ~ReturnedCell => SpecErrorRaised
    /\ Done /\ ScanCompleted /\ SomeQuantityNotPositive => SpecErrorRaised

\* A Cell with a fifth, non-required layer is returned.
C1_Witness ==
    Done /\ ReturnedCell /\ Len(result.cell[1].layers) = 5
         /\ "edge" \in NamesOf(result.cell[1].layers)

\* C2: a well-formed document (title, Realm, Region, the four layer rows in
\* any order and casing with integers >= 1, the database and cache tables)
\* parses to exactly the values it was written from: the names as written,
\* one layer per row in row order with its name in lower case, the numbers.
C2_WellFormedParsesToItsValues ==
    Done /\ given.family = "wellformed" => result = ReturnedResult(given.cell[1])

\* A document whose first row is APPS, in capitals, was parsed.
C2_Witness ==
    /\ Done /\ given.family = "wellformed" /\ ReturnedCell
    /\ Contains(text, "| APPS |")
    /\ result.cell[1].layers[1].name = "apps"
    /\ result.cell[1].realm_name = "a:b"

\* C3: the layer names of a returned Cell are exactly kernel, platform,
\* gateway and apps, and no other.
C3_LayerNamesAreExactlyTheRequired ==
    Done /\ ReturnedCell => NamesOf(result.cell[1].layers) = required_layers

BadField(l) ==
    IF l.vcpu <= 0 THEN "vCPU"
    ELSE IF l.memory_mb <= 0 THEN "memory_mb"
    ELSE IF l.tasks <= 0 THEN "tasks"
    ELSE ""

BadLayers == {k \in 1..Len(layers) : BadField(layers[k]) # ""}

DatabaseKeysPresent ==
    DOMAIN db_settings # {} /\ {"instance_class", "storage_gb"} \subseteq DOMAIN db_settings
CacheKeysPresent ==
    DOMAIN cache_settings # {} /\ {"node_type", "nodes"} \subseteq DOMAIN cache_settings

\* Whether msg is the report of the first check that fails on the scanned
\* document, in the order 1-9, then the layers' fields, storage_gb, nodes.
FirstFailureIs(msg) ==
    IF Falsy(cell_name) THEN msg = "Missing Cell title line (expected '# <name> Cell')."
    ELSE IF Falsy(realm_name) THEN msg = "Missing 'Realm:' line."
    ELSE IF Falsy(region) THEN msg = "Missing 'Region:' line."
    ELSE IF Len(layers) = 0 THEN msg = "No compute layers found under '## Compute Layers'."
    ELSE IF ~(required_layers \subseteq NamesOf(layers))
    THEN StartsWith(msg, "Missing required compute layers: ")
    ELSE IF ~DatabaseKeysPresent
    THEN msg \in {"No database settings found under '## Database'.",
                  "Database table must define 'instance_class' and 'storage_gb'."}
    ELSE IF ~IsInt(db_settings["storage_gb"])
    THEN msg = "Database 'storage_gb' must be an integer."
    ELSE IF ~CacheKeysPresent
    THEN msg \in {"No cache settings found under '## Cache'.",
                  "Cache table must define 'node_type' and 'nodes'."}
    ELSE IF ~IsInt(cache_settings["nodes"])
    THEN msg = "Cache 'nodes' must be an integer."
    ELSE IF BadLayers # {}
    THEN msg = "Layer '" \o layers[Min(BadLayers)].name \o "' "
               \o BadField(layers[Min(BadLayers)]) \o " must be positive."
    ELSE IF ToInt(db_settings["storage_gb"]) <= 0
    THEN msg = "Database 'storage_gb' must be positive."
    ELSE IF ToInt(cache_settings["nodes"]) <= 0
    THEN msg = "Cache 'nodes' must be positive."
    ELSE FALSE

NoCheckFails ==
    /\ ~Falsy(cell_name) /\ ~Falsy(realm_name) /\ ~Falsy(region)
    /\ Len(layers) > 0
    /\ required_layers \subseteq NamesOf(layers)
    /\ DatabaseKeysPresent /\ IsInt(db_settings["storage_gb"])
    /\ CacheKeysPresent /\ IsInt(cache_settings["nodes"])
    /\ BadLayers = {}
    /\ ToInt(db_settings["storage_gb"]) > 0
    /\ ToInt(cache_settings["nodes"]) > 0

\* C4: when the scan completes without a scanner error, validation reports
\* the error of the first failing check in the order (1) cell name, (2) realm,
\* (3) region, (4) a layer parsed, (5) the required layers, (6) database keys,
\* (7) storage_gb an integer, (8) cache keys, (9) nodes an integer, then per
\* layer in parsed order vcpu, memory_mb, tasks, then storage_gb > 0, then
\* nodes > 0; a Cell is returned only if none fails.
C4_FirstFailingCheckIsReported ==
    Done /\ ScanCompleted =>
        IF NoCheckFails THEN ReturnedCell
        ELSE SpecErrorRaised /\ FirstFailureIs(result.msg)

\* A document with a structural defect (no nodes key) and numeric ones (a
\* layer's vcpu, then storage_gb) ended with the structural report.
C4_Witness ==
    /\ Done /\ ScanCompleted
    /\ BadLayers # {}
    /\ DatabaseKeysPresent
    /\ "nodes" \notin DOMAIN cache_settings
    /\ result.msg = "Cache table must define 'node_type' and 'nodes'."

\* A document with two numeric defects ended with the report of the layer.
C4_WitnessNumeric ==
    /\ Done /\ ScanCompleted
    /\ BadLayers # {}
    /\ DatabaseKeysPresent /\ db_settings["storage_gb"] = "0"
    /\ result.msg = "Layer 'kernel' vCPU must be positive."

\* C5: a path whose content cannot be obtained (missing, unreadable or not
\* decodable) always ends in the spec error kind, never in another.
C5_NoContentIsASpecError ==
    Done /\ fs \in {"missing", "unreadable", "undecodable"} => SpecErrorRaised

\* C6: the instance_class and node_type of a returned Cell are non-empty.
C6_TokensAreNonEmpty ==
    Done /\ ReturnedCell =>
        /\ result.cell[1].database.instance_class # ""
        /\ result.cell[1].cache.node_type # ""

\* The four required names in alphabetical order.
Alphabetical == <<"apps", "gateway", "kernel", "platform">>

MissingList ==
    LET absent(name) == name \notin NamesOf(layers)
    IN  Join(SelectSeq(Alphabetical, absent), ", ")

RECURSIVE KindsFrom(_, _)
KindsFrom(ls, k) ==
    IF k > Len(ls) THEN <<>> ELSE <<Kind(Strip(ls[k]))>> \o KindsFrom(ls, k + 1)

\* The lines of a kind (zero-based), given the kinds of all lines.
LinesOfKind(kinds, kind) == {k \in 0..(Len(kinds) - 1) : kinds[k + 1] = kind}

\* What the line at k gives, None for k = -1, no such line: a metadata
\* value, a section's table.
TitleAt(k) ==
    IF k < 0 THEN None ELSE Some(parse_cell_name_from_title(Strip(Line(lines, k))))
ValueAt(k) ==
    IF k < 0 THEN None ELSE Some(Strip(AfterFirst(Strip(Line(lines, k)), ":")))
LayersAt(k) == IF k < 0 THEN <<>> ELSE parse_layers_table(lines, k + 1).value
SettingsAt(k) == IF k < 0 THEN EmptyDict ELSE parse_kv_table(lines, k + 1).value

\* The accumulators hold what the last line of each kind gives.
LastWins(kinds) ==
    LET last(kind) == Max(LinesOfKind(kinds, kind) \cup {-1})
        database == SettingsAt(last("database"))
        realm == ValueAt(last("realm"))
    IN  /\ cell_name = TitleAt(last("title"))
        /\ realm_name = realm
        /\ region = ValueAt(last("region"))
        /\ layers = LayersAt(last("compute layers"))
        /\ db_settings = database
        /\ cache_settings = SettingsAt(last("cache"))
        /\ Done /\ "storage_gb" \notin DOMAIN database => SpecErrorRaised
        /\ Done /\ realm = Some("") => SpecErrorRaised

\* C8: after the document scan, cell name, realm and region are the values of
\* the last matching lines, and the layers, database settings and cache
\* settings are exactly what the table of the last section of that name
\* yielded, nothing of an earlier one kept; so a last Database section
\* without storage_gb, or a last Realm line with no value, fails the parse.
C8_LastOccurrenceWins == ScanCompleted => LastWins(KindsFrom(lines, 1))

TwoDatabaseSections(at) ==
    /\ Cardinality(at) = 2
    /\ "storage_gb" \in DOMAIN SettingsAt(Min(at))

\* A second Database section without storage_gb followed a complete one, and
\* the parse failed for the key.
C8_Witness ==
    /\ Done /\ ScanCompleted
    /\ DOMAIN db_settings = {"instance_class"}
    /\ result.msg = "Database table must define 'instance_class' and 'storage_gb'."
    /\ TwoDatabaseSections(LinesOfKind(KindsFrom(lines, 1), "database"))

\* The data rows of the first Compute Layers table: the delimiter-prefixed
\* lines that follow its header and separator rows.
TableRows(headers) ==
    IF headers = {} THEN {}
    ELSE LET h == SkipBlank(lines, Min(headers) + 1)
         IN  {k \in (h + 2)..(Len(lines) - 1) : \A j \in h..k : RowAt(lines, j)}

FirstTableRows == TableRows(LinesOfKind(KindsFrom(lines, 1), "compute layers"))

\* A data row with fewer than 4 cells, or whose vCPU, Memory or Tasks cell is
\* not an integer.
IsBadRow(line) ==
    \/ Len(Cells(line)) < 4
    \/ ~(IsInt(Cells(line)[2]) /\ IsInt(Cells(line)[3]) /\ IsInt(Cells(line)[4]))

BadRowsOf(rows) == {k \in rows : IsBadRow(Strip(Line(lines, k)))}

\* The first bad row exists, the parse failed and its message holds the row.
FailsNaming(bad) ==
    bad # {} => SpecErrorRaised /\ Contains(result.msg, Strip(Line(lines, Min(bad))))

\* C9: a data row of a Compute Layers table with fewer than 4 cells, or with
\* a non-integer vCPU, Memory or Tasks cell, makes the parse fail with a spec
\* error whose message holds that row's text (the first such row's, the parse
\* stopping there); no such row is skipped or accepted.
C9_BadRowFailsNamingTheRow ==
    Done /\ given.family = "rows" => FailsNaming(BadRowsOf(FirstTableRows))

\* The parse of the blocks in the example's order with nothing between them.
GoodCanon == Text(Flatten(GoodBlocks))
OtherCanon == Text(Flatten(OtherBlocks))
ParsedGood == parse_text(GoodCanon)
ParsedOther == parse_text(OtherCanon)
CanonicalParse ==
    IF given.canon = GoodCanon THEN ParsedGood
    ELSE IF given.canon = OtherCanon THEN ParsedOther
    ELSE parse_text(given.canon)

\* C10: the six blocks in any order, with or without blank lines between
\* them, parse to the Cell that the blocks parse to in the example's order
\* with nothing between them, whenever either parse returns a Cell.
C10_BlockOrderIsIrrelevant ==
    Done /\ given.family = "permuted" =>
        (ReturnedCell \/ CanonicalParse.kind = "returned" => result = CanonicalParse)

\* A permuted document that ends with its title line, right under a table,
\* was parsed to a Cell.
C10_Witness ==
    /\ Done /\ given.family = "permuted" /\ ReturnedCell
    /\ text # given.canon
    /\ lines[Len(lines)] = "# icc-02"
    /\ StartsWith(lines[Len(lines) - 1], "|")

BlankAt(ls, k) == Strip(Line(ls, k)) = ""

\* Whether c is where a table scanner started at start must stop: blank lines,
\* then the header and separator rows and the data rows up to c, and at c the
\* end of the input or a line that is blank or has no delimiter prefix.
StopsRight(ls, start, c) ==
    /\ c >= start + 2
    /\ c <= Len(ls)
    /\ c = Len(ls) \/ ~RowAt(ls, c)
    /\ \E h \in start..(c - 2) :
          /\ \A j \in start..(h - 1) : BlankAt(ls, j)
          /\ \A j \in h..(c - 1) : RowAt(ls, j)

ReturnsRight(r, ls, start) == ~r.raised => StopsRight(ls, start, r.i)

\* Both table scanners, from every line of the document.
ScannersStopRight ==
    \A start \in 0..Len(lines) :
        /\ ReturnsRight(parse_layers_table(lines, start), lines, start)
        /\ ReturnsRight(parse_kv_table(lines, start), lines, start)

IsHeader(kind) == kind \in {"compute layers", "database", "cache"}

\* A step of the document scanner that leaves it scanning: past a section
\* header the cursor becomes the scanner's stop, else it advances by one.
CursorStep(kind) ==
    pc' = "scan" =>
        /\ lines' = lines
        /\ IF IsHeader(kind) THEN StopsRight(lines, i + 1, i') ELSE i' = i + 1

\* A step of the document scanner at a line right under a table row: the
\* line is classified as if it stood alone.
RecognizedStep(kind) ==
    i > 0 /\ RowAt(lines, i - 1) =>
        /\ kind = "title" => cell_name' = TitleAt(i) /\ pc' = "scan"
        /\ kind = "realm" => realm_name' = ValueAt(i) /\ pc' = "scan"
        /\ kind = "region" => region' = ValueAt(i) /\ pc' = "scan"
        /\ kind = "compute layers" => pc' = "done" \/ layers' = LayersAt(i)
        /\ kind = "database" => pc' = "done" \/ db_settings' = SettingsAt(i)
        /\ kind = "cache" => pc' = "done" \/ cache_settings' = SettingsAt(i)

ScanStep(kind) == CursorStep(kind) /\ RecognizedStep(kind)

\* C11: a table scanner that does not raise returns a cursor of at least
\* start + 2 and at most the number of lines, at the first blank or
\* non-delimiter-prefixed line after the rows it consumed or at the end of
\* the input; the document scanner takes that cursor as it is and classifies
\* that line next, so that every step of the scan covers the lines from its
\* cursor up to the next cursor and no line twice, and a title, Realm or
\* Region line or section header right under a table's last row is
\* recognized.
C11_ScannerCursor ==
    /\ [](pc = "scan" /\ i = 0 => ScannersStopRight)
    /\ [][Scanning => ScanStep(Kind(Current))]_vars

\* The only title line of a document stood right under a table's last row,
\* and the scan took the cell name from it.
C11_Witness ==
    /\ pc = "scan" /\ i >= 2
    /\ RowAt(lines, i - 2)
    /\ Kind(Strip(Line(lines, i - 1))) = "title"
    /\ \A k \in 0..(i - 2) : Kind(Strip(Line(lines, k))) # "title"
    /\ cell_name = TitleAt(i - 1)
    /\ cell_name # None

=============================================================================
